---- MODULE Spec2Model ----
(***************************************************************************)
(* Model of the email assistant: the two synthesizers                      *)
(* (generate_email_content, generate_email), the sender (send_email_smtp)  *)
(* and the two interactive orchestrators (the LangGraph workflow and the   *)
(* LangChain agent executor).                                              *)
(*                                                                         *)
(* The completion service, the chat model and the SMTP server are          *)
(* external: their answers are nondeterministic choices over small sets.   *)
(***************************************************************************)
EXTENDS Integers, Sequences, FiniteSets, TLC

VARIABLES
    impl,          \* which orchestrator runs: "langgraph" or "langchain"
    api_key,       \* os.getenv("OPENAI_API_KEY"): TRUE when set
    pc,            \* position of the session loop
    user_input,    \* the line read by input()
    messages,      \* state["messages"] of the running workflow
    iter,          \* model calls made in this turn
    inflight,      \* indexes of the last response's tool calls being executed
    finished,      \* indexes of the last response's tool calls already executed
    results,       \* tool results of the current tools step, by index
    shown,         \* what the loop printed last: "" (nothing), "clarify", "processing",
                   \* "turn" (the rule after a turn), "error", "goodbye", "interrupted"
    pendingDraft,  \* the draft printed by the generation tool and not sent since
    prevDraft,     \* pendingDraft as it was when the current line was read
    send_count,    \* invocations of send_email_smtp in this turn
    smtp_count,    \* SMTP sessions opened in this turn
    last_send,     \* the last invocation of send_email_smtp in this turn
    gen_count,     \* invocations of generate_email_content in this turn
    initial_state, \* what run_email_agent last handed to app.stream / agent_executor.invoke
    fn_in,         \* pure-function specifications: the input drawn
    fn_out         \* pure-function specifications: the result computed

vars == << impl, api_key, pc, user_input, messages, iter, inflight, finished,
           results, shown, pendingDraft, prevDraft, send_count,
           smtp_count, last_send, gen_count, initial_state, fn_in, fn_out >>

orch_vars == << impl, api_key, pc, user_input, messages, iter, inflight, finished,
                results, shown, pendingDraft, prevDraft, send_count,
                smtp_count, last_send, gen_count, initial_state >>

-----------------------------------------------------------------------------
(* JSON values as Python sees them after json.loads.                       *)

JNull == [t |-> "null"]
JStr(s) == [t |-> "str", s |-> s]
JList(l) == [t |-> "list", l |-> l]
JNum == [t |-> "num"]

\* Python truthiness: None, "", [] are falsy (bool(x) is False).
Falsy(v) ==
    \/ v.t = "null"
    \/ (v.t = "str" /\ v.s = "")
    \/ (v.t = "list" /\ v.l = << >>)

\* dict.get(key): the value, or None when the key is absent.
Get(d, k) == IF k \in DOMAIN d THEN d[k] ELSE JNull

\* d[key] = value on a dict.
SetItem(d, k, v) == [x \in (DOMAIN d) \cup {k} |-> IF x = k THEN v ELSE d[x]]

required_fields == << "subject", "body", "to", "cc", "bcc", "priority" >>

FieldNames == { required_fields[i] : i \in 1..Len(required_fields) }

PLACEHOLDER == "recipient@example.com"

REAL_ADDR == "pat@example.org"

CC_ADDR == "cc@example.org"

\* A parsed JSON document: an object (a dict) or something else.
JDict(d) == [t |-> "dict", d |-> d]

\* What the completion text can give per field: absent, or one of these values.
FieldValues(f) ==
    CASE f = "subject" -> { JStr(""), JStr("Hello") }
      [] f = "body" -> { JStr(""), JStr("Text") }
      [] f = "to" -> { JList(<< >>), JList(<< REAL_ADDR >>), JList(<< PLACEHOLDER >>), JNull }
      [] f = "cc" -> { JList(<< >>), JList(<< CC_ADDR >>) }
      [] f = "bcc" -> { JList(<< >>) }
      [] f = "priority" -> { JStr("high"), JStr("low"), JStr("normal") }

\* Every dict over a subset of the six fields.
AllDicts ==
    UNION { { d \in [K -> UNION { FieldValues(f) : f \in K }] :
                \A f \in K : d[f] \in FieldValues(f) } : K \in SUBSET FieldNames }

\* Parsed documents that are not objects: lists of strings and a number.
NonDicts == { JList(<< >>), JList(required_fields), JList(<< "subject" >>), JNum, JNull }

-----------------------------------------------------------------------------
(* The completion service: one call of client.chat.completions.create.     *)

\* The call raises; or the message content is None; or it is text, which
\* json.loads either rejects (valid = FALSE) or parses to `value`.
CompletionOf(kind, valid, raw, value) ==
    [kind |-> kind, valid |-> valid, raw |-> raw, value |-> value]

Completions ==
    { CompletionOf("raise", FALSE, "", JNull), CompletionOf("none", FALSE, "", JNull),
      CompletionOf("text", FALSE, "", JNull), CompletionOf("text", FALSE, "Sure! Here it is", JNull) }
    \cup { CompletionOf("text", TRUE, "", JDict(d)) : d \in AllDicts }
    \cup { CompletionOf("text", TRUE, "", v) : v \in NonDicts }

\* json.dumps(obj): the text of a document; json.loads gives the document back.
Dumps(doc) == [t |-> "text", valid |-> TRUE, json |-> doc]

\* Text that json.loads rejects with JSONDecodeError.
BadText == [t |-> "text", valid |-> FALSE, json |-> JNull]

ErrorDict(msg) == JDict([k \in {"error"} |-> JStr(msg)])

ErrorDictRaw(msg, raw) ==
    JDict([k \in {"error", "raw_response"} |-> IF k = "error" THEN JStr(msg) ELSE JStr(raw)])

\* `field in email_data` raises TypeError on a number or None.
InRaises(doc) == doc.t \in {"num", "null"}

\* `field in email_data`: a key of a dict, an element of a list.
In(doc, f) ==
    IF doc.t = "dict" THEN f \in DOMAIN doc.d
    ELSE \E i \in 1..Len(doc.l) : doc.l[i] = f

\* The default stored for a missing field: generate_email_content
\* (variant "content") and generate_email (variant "generate").
Default(variant, f) ==
    IF f \in {"to", "cc", "bcc"} THEN JList(<< >>)
    ELSE IF variant = "content" /\ f = "priority" THEN JStr("normal")
    ELSE JStr("")

TypeError == [t |-> "TypeError"]

\* The loop over required_fields from position i on: the document with the
\* missing fields stored, or TypeError when the membership test or the
\* item assignment raises (anything but a dict).
RECURSIVE RepairFrom(_, _, _)
RepairFrom(doc, i, variant) ==
    IF i > Len(required_fields) THEN doc
    ELSE IF InRaises(doc) THEN TypeError
    ELSE IF In(doc, required_fields[i]) THEN RepairFrom(doc, i + 1, variant)
    ELSE IF doc.t # "dict" THEN TypeError
    ELSE RepairFrom(JDict(SetItem(doc.d, required_fields[i],
                                  Default(variant, required_fields[i]))), i + 1, variant)

\* email_langgraph.py / email_agent_langchain.py: the tool's `to` policy.
EnsureRecipient(d) ==
    IF Falsy(d["to"]) THEN SetItem(d, "to", JList(<< PLACEHOLDER >>)) ELSE d

\* generate_email_content(query): the text the tool returns. The whole body
\* is inside try/except Exception, so the tool never raises.
generate_email_content(key, c) ==
    IF ~key THEN Dumps(ErrorDict("OpenAI API key not found in environment variables"))
    ELSE IF c.kind \in {"raise", "none"} THEN Dumps(ErrorDict("Email generation failed"))
    ELSE IF ~c.valid THEN Dumps(ErrorDictRaw("Failed to parse JSON response", c.raw))
    ELSE LET repaired == RepairFrom(c.value, 1, "content") IN
         IF repaired = TypeError THEN Dumps(ErrorDict("Email generation failed"))
         ELSE IF repaired.t # "dict" THEN Dumps(ErrorDict("Email generation failed"))
         ELSE Dumps(JDict(EnsureRecipient(repaired.d)))

Returned(v) == [kind |-> "return", value |-> v]

Raised == [kind |-> "raise", value |-> JNull]

\* generate_email(query): openai.OpenAI(api_key=None) is built outside the
\* try block and raises when no key is set; the rest is inside try/except.
generate_email(key, c) ==
    IF ~key THEN Raised
    ELSE IF c.kind \in {"raise", "none"} THEN Returned(ErrorDict("API call failed"))
    ELSE IF ~c.valid THEN Returned(ErrorDictRaw("Failed to parse JSON response", c.raw))
    ELSE LET repaired == RepairFrom(c.value, 1, "generate") IN
         IF repaired = TypeError THEN Returned(ErrorDict("API call failed"))
         ELSE Returned(repaired)

-----------------------------------------------------------------------------
(* The sender: send_email_smtp, the same code in both agent files.         *)

\* The SMTP session of one call, as the server lets it go: the operation
\* that raises (at = "none": nothing raises) and the exception it raises.
\* When quit raises, sendmail has already taken the message.
smtp_ops == << "connect", "starttls", "login", "sendmail", "quit" >>

TransportOf(at, err) == [at |-> at, err |-> err]

Transports ==
    { TransportOf("none", "none"),
      TransportOf("connect", "other"),
      TransportOf("starttls", "disconnected"),
      TransportOf("login", "auth"),
      TransportOf("sendmail", "refused"),
      TransportOf("sendmail", "disconnected"),
      TransportOf("sendmail", "other"),
      TransportOf("quit", "disconnected") }

\* OpsFrom with a second session opened after the operation that raises.
RECURSIVE OpsFrom_Retry(_, _)
OpsFrom_Retry(tr, i) ==
    IF i > Len(smtp_ops) THEN << >>
    ELSE IF smtp_ops[i] = tr.at THEN << smtp_ops[i] >> \o SubSeq(smtp_ops, 1, i)
    ELSE << smtp_ops[i] >> \o OpsFrom_Retry(tr, i + 1)

\* The operations of smtp_ops from position i on that run before the session
\* ends: all of them, or those up to the one that raises.
RECURSIVE OpsFrom(_, _)
OpsFrom(tr, i) ==
    IF i > Len(smtp_ops) THEN << >>
    ELSE IF smtp_ops[i] = tr.at THEN << smtp_ops[i] >>
    ELSE << smtp_ops[i] >> \o OpsFrom(tr, i + 1)

\* The except clauses of send_email_smtp.
ErrorMessage(err) ==
    CASE err = "auth" -> "Error: SMTP authentication failed. Please check your email credentials."
      [] err = "refused" -> "Error: Invalid recipient email addresses"
      [] err = "disconnected" -> "Error: SMTP server connection lost. Please try again."
      [] OTHER -> "Error: Failed to send email"

SendResult(msg, recipients, ops) == [msg |-> msg, recipients |-> recipients, smtp |-> ops]

\* The list a truthy cc/bcc adds to all_recipients.
Extra(d, f) == IF Falsy(Get(d, f)) THEN << >> ELSE d[f].l

\* Validate with the body checked before the subject.
Validate_BodyFirst(d) ==
    IF Falsy(Get(d, "body")) THEN "Error: Email body is required"
    ELSE IF Falsy(Get(d, "subject")) THEN "Error: Email subject is required"
    ELSE IF Falsy(Get(d, "to")) \/ Len(d["to"].l) = 0
         THEN "Error: At least one recipient is required"
    ELSE ""

\* The first of the three checks that fails, or "" when the draft passes.
Validate(d) ==
    IF Falsy(Get(d, "subject")) THEN "Error: Email subject is required"
    ELSE IF Falsy(Get(d, "body")) THEN "Error: Email body is required"
    ELSE IF Falsy(Get(d, "to")) \/ Len(d["to"].l) = 0
         THEN "Error: At least one recipient is required"
    ELSE ""

\* send_email_smtp(email_data_json) against a server behaving as tr: the
\* message returned, the recipients handed to sendmail and the SMTP
\* operations performed.
send_email_smtp(text, tr) ==
    IF ~text.valid THEN SendResult("Error: Invalid email data format", << >>, << >>)
    ELSE IF text.json.t # "dict" THEN SendResult("Error: Failed to send email", << >>, << >>)
    ELSE LET d == text.json.d
             all_recipients == d["to"].l \o Extra(d, "cc") \o Extra(d, "bcc")
         IN IF Validate(d) # "" THEN SendResult(Validate(d), << >>, << >>)
            ELSE IF tr.at = "none"
                 THEN SendResult("Email sent successfully", all_recipients, OpsFrom(tr, 1))
            ELSE IF tr.at = "quit"
                 THEN SendResult(ErrorMessage(tr.err), all_recipients, OpsFrom(tr, 1))
            ELSE SendResult(ErrorMessage(tr.err), << >>, OpsFrom(tr, 1))

-----------------------------------------------------------------------------
(* The session before any line is read; the function specifications keep   *)
(* the session there.                                                      *)

NoDraft == [t |-> "none"]

NoSend == [text |-> BadText, result |-> SendResult("", << >>, << >>), ran |-> FALSE]

NotRun == [fn |-> "none", result |-> JNull]

\* initial_state before the first turn assigns it.
NoState == [t |-> "unassigned"]

SessionStart ==
    /\ pc = "prompt"
    /\ user_input = << >>
    /\ messages = << >>
    /\ iter = 0
    /\ inflight = {}
    /\ finished = {}
    /\ results = << >>
    /\ shown = ""
    /\ pendingDraft = NoDraft
    /\ prevDraft = NoDraft
    /\ send_count = 0
    /\ smtp_count = 0
    /\ last_send = NoSend
    /\ gen_count = 0
    /\ initial_state = NoState

-----------------------------------------------------------------------------
(* The synthesizers as functions of the credential and the completion.     *)

SynthInit ==
    /\ impl = "langgraph"
    /\ api_key \in BOOLEAN
    /\ SessionStart
    /\ fn_in \in { [completion |-> c] : c \in Completions }
    /\ fn_out = NotRun

\* generate_email_content(query), email_langgraph.py and email_agent_langchain.py
ApplyGenerateEmailContent ==
    /\ fn_out = NotRun
    /\ fn_out' = [fn |-> "generate_email_content",
                  result |-> generate_email_content(api_key, fn_in.completion)]
    /\ UNCHANGED << orch_vars, fn_in >>

\* generate_email(query), email_generation.py
ApplyGenerateEmail ==
    /\ fn_out = NotRun
    /\ fn_out' = [fn |-> "generate_email",
                  result |-> generate_email(api_key, fn_in.completion)]
    /\ UNCHANGED << orch_vars, fn_in >>

SynthNext == ApplyGenerateEmailContent \/ ApplyGenerateEmail

SynthSpec == SynthInit /\ [][SynthNext]_vars

-----------------------------------------------------------------------------
(* The sender as a function of the text it is given and the SMTP server.   *)

SendTexts ==
    { BadText } \cup { Dumps(v) : v \in NonDicts } \cup { Dumps(JDict(d)) : d \in AllDicts }

SendInit ==
    /\ impl = "langgraph"
    /\ api_key = TRUE
    /\ SessionStart
    /\ fn_in \in { [text |-> t, tr |-> tr] : t \in SendTexts, tr \in Transports }
    /\ fn_out = NotRun

\* send_email_smtp(email_data_json)
ApplySendEmailSmtp ==
    /\ fn_out = NotRun
    /\ fn_out' = [fn |-> "send_email_smtp",
                  result |-> send_email_smtp(fn_in.text, fn_in.tr)]
    /\ UNCHANGED << orch_vars, fn_in >>

SendNext == ApplySendEmailSmtp

SendSpec == SendInit /\ [][SendNext]_vars

-----------------------------------------------------------------------------
(* The interactive session: run_email_agent of email_langgraph.py          *)
(* (impl = "langgraph") and of email_agent_langchain.py (impl =            *)
(* "langchain").  A line is a sequence of one-character strings.           *)

MaxIter == 2    \* model calls per turn before the framework's limit stops the turn

MaxCalls == 2   \* tool calls one model response may request

IsSpace(c) == c = " "

LowerChar(c) ==
    CASE c = "Q" -> "q" [] c = "U" -> "u" [] c = "I" -> "i" [] c = "T" -> "t"
      [] c = "E" -> "e" [] c = "X" -> "x" [] c = "B" -> "b" [] c = "Y" -> "y"
      [] OTHER -> c

\* lower that leaves capitals alone.
lower_Identity(s) == s

\* str.lower()
lower(s) == [i \in 1..Len(s) |-> LowerChar(s[i])]

RECURSIVE lstrip(_)
lstrip(s) == IF s = << >> THEN s ELSE IF IsSpace(Head(s)) THEN lstrip(Tail(s)) ELSE s

RECURSIVE rstrip(_)
rstrip(s) ==
    IF s = << >> THEN s
    ELSE IF IsSpace(s[Len(s)]) THEN rstrip(SubSeq(s, 1, Len(s) - 1)) ELSE s

\* str.strip()
strip(s) == rstrip(lstrip(s))

\* str.split(): the maximal runs of non-space characters; cur is the run
\* being read.
RECURSIVE SplitAcc(_, _)
SplitAcc(s, cur) ==
    IF s = << >> THEN (IF cur = << >> THEN << >> ELSE << cur >>)
    ELSE IF IsSpace(Head(s))
         THEN (IF cur = << >> THEN << >> ELSE << cur >>) \o SplitAcc(Tail(s), << >>)
    ELSE SplitAcc(Tail(s), Append(cur, Head(s)))

split(s) == SplitAcc(s, << >>)

exit_words == { << "q", "u", "i", "t" >>, << "e", "x", "i", "t" >>, << "b", "y", "e" >> }

\* The lines the user types.
Lines ==
    { << >>,
      << " " >>,
      << "q", "u", "i", "t" >>,
      << "Q", "U", "I", "T" >>,
      << "E", "x", "i", "t" >>,
      << "b", "y", "e" >>,
      << " ", "q", "u", "i", "t" >>,
      << "y", "e", "s" >>,
      << "y", "e", "s", " ", "s", "e", "n", "d" >>,
      << "n", "o", " ", "t", "h", "a", "n", "k", "s" >>,
      << "e", "m", "a", "i", "l", " ", "p", "a", "t" >> }

\* user_input.lower() in ['quit', 'exit', 'bye']
IsExit(line) == lower(line) \in exit_words

\* not user_input.strip()
IsBlank(line) == strip(line) = << >>

\* IsShort with the limit at one word.
IsShort_OneWord(line) == Len(split(strip(line))) < 1

\* len(user_input.strip().split()) < 2, the check only email_langgraph.py makes
IsShort(line) == Len(split(strip(line))) < 2

\* Whether this orchestrator answers the line with the "be more specific" text.
Rejects(i, line) == i = "langgraph" /\ IsShort(line)

-----------------------------------------------------------------------------
(* Messages, tool calls and what the chat model may answer.                *)

\* A plain-language query: text that is not JSON.
Query == BadText

ToolCall(name, arg) == [name |-> name, arg |-> arg]

FullDraft(to) ==
    [f \in FieldNames |->
        CASE f = "subject" -> JStr("Hello")
          [] f = "body" -> JStr("Text")
          [] f = "to" -> JList(to)
          [] f = "priority" -> JStr("normal")
          [] OTHER -> JList(<< >>)]

\* The email_data_json texts the chat model may pass to send_email_smtp.
ModelSendTexts ==
    { Dumps(JDict(FullDraft(<< REAL_ADDR >>))),
      Dumps(JDict(FullDraft(<< PLACEHOLDER >>))),
      Dumps(JDict(SetItem(FullDraft(<< REAL_ADDR >>), "subject", JStr("")))) }

ToolCalls ==
    { ToolCall("generate_email_content", Query) }
    \cup { ToolCall("send_email_smtp", t) : t \in ModelSendTexts }

\* The completions the tool gets while a session runs.
SessionCompletions ==
    { CompletionOf("text", FALSE, "Sure! Here it is", JNull),
      CompletionOf("text", TRUE, "", JDict(FullDraft(<< REAL_ADDR >>))),
      CompletionOf("text", TRUE, "", JDict([f \in {"subject", "body"} |->
                                               IF f = "subject" THEN JStr("Hello") ELSE JStr("Text")])) }

\* SMTP behaviours while a session runs.
SessionTransports ==
    { TransportOf("none", "none"), TransportOf("login", "auth") }

\* How many tool calls one answer may carry: an AIMessage has a list of
\* tool_calls, a ReAct step names one Action.
CallLimit(i) == IF i = "langgraph" THEN MaxCalls ELSE 1

SeqsUpTo(S, n) == UNION { [1..k -> S] : k \in 0..n }

Responses(i) == SeqsUpTo(ToolCalls, CallLimit(i))

Message(type, content, tool_calls, name, text, msg) ==
    [type |-> type, content |-> content, tool_calls |-> tool_calls,
     name |-> name, text |-> text, msg |-> msg]

HumanMessage(content) == Message("human", content, << >>, "", BadText, "")

AIMessage(tool_calls) == Message("ai", << >>, tool_calls, "", BadText, "")

ToolMessage(name, text, msg) == Message("tool", << >>, << >>, name, text, msg)

\* The instructions call_model puts in front when no AIMessage is in the list
\* (the agent prompt of email_agent_langchain.py is in front of every call).
SystemMessage == Message("system", << >>, << >>, "", BadText, "")

SeenByModel(i, msgs) ==
    IF i = "langchain" \/ ~(\E k \in 1..Len(msgs) : msgs[k].type = "ai")
    THEN << SystemMessage >> \o msgs
    ELSE msgs

\* should_continue: "tools" when the last message carries tool calls, else END.
should_continue(msgs) ==
    IF msgs[Len(msgs)].tool_calls # << >> THEN "tools" ELSE "END"

\* initial_state with the line before kept in front of the new one.
InitialState_KeepsHistory(i, line) ==
    IF i = "langgraph"
    THEN [messages |-> << HumanMessage(user_input), HumanMessage(line) >>,
          email_generated |-> FALSE,
          email_data |-> JDict(<< >>),
          confirmation_pending |-> FALSE]
    ELSE [input |-> user_input \o line]

\* The state a turn starts from: the AgentState literal of email_langgraph.py,
\* the {"input": ...} dict of email_agent_langchain.py.
InitialState(i, line) ==
    IF i = "langgraph"
    THEN [messages |-> << HumanMessage(line) >>,
          email_generated |-> FALSE,
          email_data |-> JDict(<< >>),
          confirmation_pending |-> FALSE]
    ELSE [input |-> line]

\* The message list the first model call of the turn works on: the state's
\* messages; the agent prompt filled with {input} and an empty scratchpad.
EntryMessages(st) ==
    IF "messages" \in DOMAIN st THEN st.messages ELSE << HumanMessage(st.input) >>

\* Whether a tool result is a draft (not an error object).
IsDraftText(text) == text.valid /\ text.json.t = "dict" /\ "error" \notin DOMAIN text.json.d

-----------------------------------------------------------------------------
(* The session loop.                                                       *)

\* create_email_agent() builds ChatOpenAI before the loop and fails without
\* a credential; create_email_workflow() builds no model.
Init ==
    /\ impl \in {"langgraph", "langchain"}
    /\ api_key \in BOOLEAN
    /\ pc = IF impl = "langchain" /\ ~api_key THEN "startup_failed" ELSE "prompt"
    /\ user_input = << >>
    /\ messages = << >>
    /\ iter = 0
    /\ inflight = {}
    /\ finished = {}
    /\ results = << >>
    /\ shown = ""
    /\ pendingDraft = NoDraft
    /\ prevDraft = NoDraft
    /\ send_count = 0
    /\ smtp_count = 0
    /\ last_send = NoSend
    /\ gen_count = 0
    /\ initial_state = NoState
    /\ fn_in = NotRun
    /\ fn_out = NotRun

\* What every pass through input() resets: the per-turn counts.
NewPass ==
    /\ prevDraft' = pendingDraft
    /\ send_count' = 0
    /\ smtp_count' = 0
    /\ last_send' = NoSend
    /\ gen_count' = 0
    /\ iter' = 0

\* CaughtException with a break in the handler.
CaughtException_Breaks ==
    /\ shown' = "error"
    /\ pc' = "done"
    /\ messages' = << >>
    /\ inflight' = {}
    /\ finished' = {}
    /\ results' = << >>

\* The turn ends with an exception reaching `except Exception`; the state of
\* the workflow goes with the stream that held it.
CaughtException ==
    /\ shown' = "error"
    /\ pc' = "prompt"
    /\ messages' = << >>
    /\ inflight' = {}
    /\ finished' = {}
    /\ results' = << >>

\* input() raises KeyboardInterrupt: goodbye, break.
Interrupt ==
    /\ pc = "prompt"
    /\ NewPass
    /\ pc' = "done"
    /\ shown' = "interrupted"
    /\ UNCHANGED << impl, api_key, user_input, messages, inflight, finished, results,
                    pendingDraft, fn_in, fn_out, initial_state >>

\* input() raises EOFError, an Exception: the message is printed and the
\* loop goes round.
InputEOF ==
    /\ pc = "prompt"
    /\ NewPass
    /\ CaughtException
    /\ UNCHANGED << impl, api_key, user_input, pendingDraft, fn_in, fn_out, initial_state >>

\* quit / exit / bye: goodbye, break.
Exit(line) ==
    /\ pc = "prompt"
    /\ IsExit(line)
    /\ NewPass
    /\ user_input' = line
    /\ pc' = "done"
    /\ shown' = "goodbye"
    /\ UNCHANGED << impl, api_key, messages, inflight, finished, results,
                    pendingDraft, fn_in, fn_out, initial_state >>

\* A line of spaces or nothing: continue.
Blank(line) ==
    /\ pc = "prompt"
    /\ ~IsExit(line)
    /\ IsBlank(line)
    /\ NewPass
    /\ user_input' = line
    /\ shown' = ""
    /\ UNCHANGED << impl, api_key, pc, messages, inflight, finished, results,
                    pendingDraft, fn_in, fn_out, initial_state >>

\* email_langgraph.py only: fewer than two words, "Please be more specific",
\* continue.
Clarify(line) ==
    /\ pc = "prompt"
    /\ ~IsExit(line)
    /\ ~IsBlank(line)
    /\ Rejects(impl, line)
    /\ NewPass
    /\ user_input' = line
    /\ shown' = "clarify"
    /\ UNCHANGED << impl, api_key, pc, messages, inflight, finished, results,
                    pendingDraft, fn_in, fn_out, initial_state >>

\* Any other line: "Processing your request", and the workflow (the agent
\* executor) starts on a state that holds this line alone.
StartTurn(line) ==
    /\ pc = "prompt"
    /\ ~IsExit(line)
    /\ ~IsBlank(line)
    /\ ~Rejects(impl, line)
    /\ NewPass
    /\ user_input' = line
    /\ shown' = "processing"
    /\ initial_state' = InitialState(impl, line)
    /\ messages' = EntryMessages(initial_state')
    /\ pendingDraft' = NoDraft
    /\ pc' = "agent"
    /\ UNCHANGED << impl, api_key, inflight, finished, results, fn_in, fn_out >>

\* call_model without a credential: ChatOpenAI(...) raises.
ModelNoKey ==
    /\ pc = "agent"
    /\ ~api_key
    /\ CaughtException
    /\ UNCHANGED << impl, api_key, user_input, iter, pendingDraft, prevDraft,
                    send_count, smtp_count, last_send, gen_count, fn_in, fn_out, initial_state >>

\* The framework's step limit: the graph raises GraphRecursionError, the
\* agent executor returns "Agent stopped due to iteration limit".
ModelLimit ==
    /\ pc = "agent"
    /\ api_key
    /\ iter = MaxIter
    /\ pc' = "prompt"
    /\ shown' = IF impl = "langgraph" THEN "error" ELSE "turn"
    /\ messages' = << >>
    /\ UNCHANGED << impl, api_key, user_input, iter, inflight, finished, results,
                    pendingDraft, prevDraft, send_count, smtp_count, last_send,
                    gen_count, fn_in, fn_out, initial_state >>

\* llm.invoke(messages) raises (the service is down, the request is refused).
ModelRaises ==
    /\ pc = "agent"
    /\ api_key
    /\ iter < MaxIter
    /\ iter' = iter + 1
    /\ CaughtException
    /\ UNCHANGED << impl, api_key, user_input, pendingDraft, prevDraft,
                    send_count, smtp_count, last_send, gen_count, fn_in, fn_out, initial_state >>

\* llm.invoke(messages) answers with the tool calls r (none: a final answer);
\* should_continue routes to the tools or ends the turn, and the state of the
\* workflow ends with the stream.
ModelAnswers(r) ==
    /\ pc = "agent"
    /\ api_key
    /\ iter < MaxIter
    /\ iter' = iter + 1
    /\ LET answered == Append(messages, AIMessage(r)) IN
          IF should_continue(answered) = "tools"
          THEN /\ messages' = answered
               /\ pc' = "tools"
               /\ shown' = shown
          ELSE /\ messages' = << >>
               /\ pc' = "prompt"
               /\ shown' = "turn"
    /\ UNCHANGED << impl, api_key, user_input, inflight, finished, results, pendingDraft,
                    prevDraft, send_count, smtp_count, last_send, gen_count, fn_in, fn_out, initial_state >>

\* The tool calls of the last answer.
Calls == messages[Len(messages)].tool_calls

\* ToolNode hands every tool call of the answer to a thread pool: a call
\* starts whatever the others are doing. The agent executor has one call.
StartTool(i) ==
    /\ pc = "tools"
    /\ i \in 1..Len(Calls)
    /\ i \notin inflight \cup finished
    /\ inflight' = inflight \cup {i}
    /\ UNCHANGED << impl, api_key, pc, user_input, messages, iter, finished, results, shown,
                    pendingDraft, prevDraft, send_count, smtp_count, last_send,
                    gen_count, fn_in, fn_out, initial_state >>

\* generate_email_content runs, the completion service answering c.
FinishGenerate(i, c) ==
    /\ pc = "tools"
    /\ i \in inflight
    /\ Calls[i].name = "generate_email_content"
    /\ inflight' = inflight \ {i}
    /\ finished' = finished \cup {i}
    /\ results' = SetItem(results, i,
                          ToolMessage(Calls[i].name, generate_email_content(api_key, c), ""))
    /\ gen_count' = gen_count + 1
    /\ UNCHANGED << impl, api_key, pc, user_input, messages, iter, shown, pendingDraft,
                    prevDraft, send_count, smtp_count, last_send, fn_in, fn_out, initial_state >>

\* send_email_smtp runs, the SMTP server behaving as tr.
FinishSend(i, tr) ==
    /\ pc = "tools"
    /\ i \in inflight
    /\ Calls[i].name = "send_email_smtp"
    /\ LET r == send_email_smtp(Calls[i].arg, tr) IN
          /\ results' = SetItem(results, i, ToolMessage(Calls[i].name, BadText, r.msg))
          /\ last_send' = [text |-> Calls[i].arg, result |-> r, ran |-> TRUE]
          /\ smtp_count' = smtp_count + (IF r.smtp # << >> THEN 1 ELSE 0)
    /\ inflight' = inflight \ {i}
    /\ finished' = finished \cup {i}
    /\ send_count' = send_count + 1
    /\ pendingDraft' = NoDraft
    /\ UNCHANGED << impl, api_key, pc, user_input, messages, iter, shown, prevDraft,
                    gen_count, fn_in, fn_out, initial_state >>

\* The draft among the tool results printed last, if any.
PrintedDraft(res, old) ==
    LET drafts == { k \in DOMAIN res : res[k].name = "generate_email_content"
                                        /\ IsDraftText(res[k].text) }
    IN IF drafts = {} THEN old
       ELSE res[CHOOSE k \in drafts : \A j \in drafts : j <= k].text.json

\* Every call is done: the tool messages join the state in the order of the
\* calls, the loop prints them ("Tool Result"), and the model is called again.
ToolsReturn ==
    /\ pc = "tools"
    /\ finished = 1..Len(Calls)
    /\ messages' = messages \o [k \in 1..Len(Calls) |-> results[k]]
    /\ pendingDraft' = PrintedDraft(results, pendingDraft)
    /\ pc' = "agent"
    /\ finished' = {}
    /\ results' = << >>
    /\ UNCHANGED << impl, api_key, user_input, iter, inflight, shown, prevDraft, send_count,
                    smtp_count, last_send, gen_count, fn_in, fn_out, initial_state >>

\* KeyboardInterrupt while the turn runs: goodbye, break.
InterruptTurn ==
    /\ pc \in {"agent", "tools"}
    /\ pc' = "done"
    /\ shown' = "interrupted"
    /\ messages' = << >>
    /\ inflight' = {}
    /\ finished' = {}
    /\ results' = << >>
    /\ UNCHANGED << impl, api_key, user_input, iter,
                    pendingDraft, prevDraft, send_count, smtp_count, last_send,
                    gen_count, fn_in, fn_out, initial_state >>

Next ==
    \/ Interrupt
    \/ InputEOF
    \/ \E line \in Lines : Exit(line)
    \/ \E line \in Lines : Blank(line)
    \/ \E line \in Lines : Clarify(line)
    \/ \E line \in Lines : StartTurn(line)
    \/ ModelNoKey
    \/ ModelLimit
    \/ ModelRaises
    \/ \E r \in Responses(impl) : ModelAnswers(r)
    \/ \E i \in 1..MaxCalls : StartTool(i)
    \/ \E i \in 1..MaxCalls, c \in SessionCompletions : FinishGenerate(i, c)
    \/ \E i \in 1..MaxCalls, tr \in SessionTransports : FinishSend(i, tr)
    \/ ToolsReturn
    \/ InterruptTurn

Spec == Init /\ [][Next]_vars

-----------------------------------------------------------------------------
(* Properties of the synthesizers (checked under SynthSpec).               *)

\* The document a synthesizer call gave back, when it returned.
ReturnedNormally(out) ==
    out.fn = "generate_email_content" \/ out.result.kind = "return"

ResultDoc(out) ==
    IF out.fn = "generate_email_content" THEN out.result.json ELSE out.result.value

IsError(doc) == doc.t = "dict" /\ "error" \in DOMAIN doc.d

PolicyDefault(f) ==
    IF f \in {"to", "cc", "bcc"} THEN JList(<< >>)
    ELSE IF f = "priority" THEN JStr("normal")
    ELSE JStr("")

\* C6: every non-error result of every synthesizer is an object with all six
\* fields, and a field absent from the completion output carries its policy
\* default ([] for to/cc/bcc, or the placeholder put in place of an empty to;
\* "normal" for priority; "" for subject and body).
C6_SixFieldsWithDefaults ==
    (fn_out.fn # "none" /\ ReturnedNormally(fn_out) /\ ~IsError(ResultDoc(fn_out))) =>
        LET doc == ResultDoc(fn_out)
            given == fn_in.completion.value
        IN /\ doc.t = "dict"
           /\ FieldNames \subseteq DOMAIN doc.d
           /\ \A f \in FieldNames :
                 (given.t = "dict" /\ f \notin DOMAIN given.d) =>
                     \/ doc.d[f] = PolicyDefault(f)
                     \/ (f = "to" /\ doc.d[f] = JList(<< PLACEHOLDER >>))

\* C7: when the credential is missing, the completion call fails, the text
\* does not parse or parses to something that is not an object, the
\* synthesizer returns (does not raise) an error value, which carries the raw
\* text when parsing failed.
C7_FailuresReturnErrors ==
    LET c == fn_in.completion
        failure == ~api_key \/ c.kind # "text" \/ ~c.valid \/ c.value.t # "dict"
    IN (fn_out.fn # "none" /\ failure) =>
          /\ ReturnedNormally(fn_out)
          /\ IsError(ResultDoc(fn_out))
          /\ (api_key /\ c.kind = "text" /\ ~c.valid) =>
                 ResultDoc(fn_out).d["raw_response"] = JStr(c.raw)

-----------------------------------------------------------------------------
(* Properties of the sender (checked under SendSpec).                      *)

\* A field that is absent, None, "" or [].
Empty(d, f) ==
    f \notin DOMAIN d \/ d[f] = JNull \/ d[f] = JStr("") \/ d[f] = JList(<< >>)

\* C3: send checks subject, body and `to` in that order before any SMTP
\* operation; when a check fails it returns the message of the first failing
\* check and performs no SMTP operation at all.
C3_ChecksBeforeTransport ==
    (fn_out.fn = "send_email_smtp" /\ fn_in.text.valid /\ fn_in.text.json.t = "dict") =>
        LET d == fn_in.text.json.d
            r == fn_out.result
        IN /\ Empty(d, "subject") =>
                 (r.msg = "Error: Email subject is required" /\ r.smtp = << >>)
           /\ (~Empty(d, "subject") /\ Empty(d, "body")) =>
                 (r.msg = "Error: Email body is required" /\ r.smtp = << >>)
           /\ (~Empty(d, "subject") /\ ~Empty(d, "body") /\ Empty(d, "to")) =>
                 (r.msg = "Error: At least one recipient is required" /\ r.smtp = << >>)

\* C3 witness: a draft with a subject but neither body nor recipient was sent
\* to a server that would have accepted it, and the body check answered.
C3_Witness ==
    /\ fn_out.fn = "send_email_smtp"
    /\ fn_in.text.valid
    /\ fn_in.text.json.t = "dict"
    /\ fn_in.tr.at = "none"
    /\ ~Empty(fn_in.text.json.d, "subject")
    /\ Empty(fn_in.text.json.d, "body")
    /\ Empty(fn_in.text.json.d, "to")
    /\ fn_out.result.msg = "Error: Email body is required"
    /\ fn_out.result.smtp = << >>

\* The draft given to send_email_smtp passes the three checks.
PassesChecks ==
    /\ fn_in.text.valid
    /\ fn_in.text.json.t = "dict"
    /\ ~Empty(fn_in.text.json.d, "subject")
    /\ ~Empty(fn_in.text.json.d, "body")
    /\ ~Empty(fn_in.text.json.d, "to")

\* How often an operation occurs among the SMTP operations of a call.
Times(ops, op) == Cardinality({ k \in 1..Len(ops) : ops[k] = op })

\* C12: for a draft that passes the checks, one call of send opens one SMTP
\* session and performs no operation twice; when an operation fails, the
\* session ends with that operation and the call returns the error message
\* of the failure's cause.
C12_SingleAttemptFailureReturned ==
    (fn_out.fn = "send_email_smtp" /\ PassesChecks) =>
        LET r == fn_out.result
            tr == fn_in.tr
        IN /\ Times(r.smtp, "connect") = 1
           /\ \A op \in {"starttls", "login", "sendmail", "quit"} : Times(r.smtp, op) <= 1
           /\ tr.at # "none" =>
                 /\ r.smtp[Len(r.smtp)] = tr.at
                 /\ tr.err = "auth" =>
                       r.msg = "Error: SMTP authentication failed. Please check your email credentials."
                 /\ tr.err = "refused" => r.msg = "Error: Invalid recipient email addresses"
                 /\ tr.err = "disconnected" =>
                       r.msg = "Error: SMTP server connection lost. Please try again."
                 /\ tr.err = "other" => r.msg = "Error: Failed to send email"

\* C12 witness: a complete draft was sent to a server that refused the
\* recipients at sendmail; the call returned that error after one session.
C12_Witness ==
    /\ fn_out.fn = "send_email_smtp"
    /\ PassesChecks
    /\ fn_in.tr = TransportOf("sendmail", "refused")
    /\ fn_out.result.msg = "Error: Invalid recipient email addresses"
    /\ fn_out.result.smtp = << "connect", "starttls", "login", "sendmail" >>

-----------------------------------------------------------------------------
(* Properties of the session (checked under Spec).                         *)
(* The orchestrator's states, read off the session: Idle and               *)
(* AwaitingConfirmation are the prompt without and with a draft on the     *)
(* screen that was not sent; Sending is a running send_email_smtp call;    *)
(* Done is the loop left.                                                  *)

Idle == pc = "prompt" /\ pendingDraft = NoDraft

AwaitingConfirmation == pc = "prompt" /\ pendingDraft # NoDraft

Sending == pc = "tools" /\ \E i \in inflight : Calls[i].name = "send_email_smtp"

Done == pc = "done"

\* The user's meaning of a line.
Affirmative(line) ==
    line \in { << "y", "e", "s" >>, << "y", "e", "s", " ", "s", "e", "n", "d" >> }

Negative(line) == line = << "n", "o", " ", "t", "h", "a", "n", "k", "s" >>

\* The recipients of a draft.
ToOf(doc) == IF doc.t = "dict" /\ "to" \in DOMAIN doc.d /\ doc.d["to"].t = "list"
             THEN doc.d["to"].l ELSE << >>

\* C1: send_email_smtp runs only when a draft was on the screen when the
\* line was read and the line is an affirmative confirmation.
C1_SendOnlyAfterConfirmation ==
    Sending => (prevDraft # NoDraft /\ Affirmative(user_input))

\* C2: a draft whose only recipient is the placeholder is never handed to
\* send_email_smtp.
C2_PlaceholderNeverSent ==
    /\ \A i \in inflight :
          (pc = "tools" /\ Calls[i].name = "send_email_smtp") =>
              ToOf(Calls[i].arg.json) # << PLACEHOLDER >>
    /\ last_send.ran => ToOf(last_send.text.json) # << PLACEHOLDER >>

\* C4: when a draft with a real recipient is on the screen and the user
\* answers with an affirmative line, the line's turn invokes send_email_smtp
\* exactly once, with the recipients of that draft.
C4_AffirmativeSendsOnce ==
    (/\ pc = "prompt"
     /\ shown \in {"turn", "clarify"}
     /\ prevDraft # NoDraft
     /\ ToOf(prevDraft) = << REAL_ADDR >>
     /\ Affirmative(user_input)) =>
        (send_count = 1 /\ ToOf(last_send.text.json) = ToOf(prevDraft))

\* C5: when a draft is on the screen and the user answers with a negative
\* line, send_email_smtp is not invoked in that line's turn and no draft is
\* pending once the turn is over.
C5_DeclineNeverSends ==
    (/\ shown \in {"processing", "turn", "clarify"}
     /\ prevDraft # NoDraft
     /\ Negative(user_input)) =>
        (send_count = 0 /\ ~Sending /\ (pc = "prompt" => pendingDraft = NoDraft))

\* A step that read a line (input() returned).
ReadsLine == pc = "prompt" /\ shown' \notin {"error", "interrupted"}

\* The number of words of a line, counted on its spaces.
RECURSIVE Words(_)
Words(line) ==
    IF line = << >> THEN 0
    ELSE IF Head(line) = " " THEN Words(Tail(line))
    ELSE IF Len(line) = 1 \/ line[2] = " " THEN 1 + Words(Tail(line))
    ELSE Words(Tail(line))

UpperChar(c) ==
    CASE c = "q" -> "Q" [] c = "u" -> "U" [] c = "i" -> "I" [] c = "t" -> "T"
      [] c = "e" -> "E" [] c = "x" -> "X" [] c = "b" -> "B" [] c = "y" -> "Y"
      [] OTHER -> c

\* quit, exit or bye in any letter case.
ExitWord(line) ==
    \E w \in exit_words :
        /\ Len(line) = Len(w)
        /\ \A k \in 1..Len(w) : line[k] \in {w[k], UpperChar(w[k])}

\* C8: the loop is left only by an exit word or an interrupt; an exception
\* leaves the session at the prompt with the error printed; once left, the
\* loop stays left.
C8_OnlyExitOrInterruptEnds ==
    [][ /\ (pc # "done" /\ pc' = "done") =>
              \/ shown' = "interrupted"
              \/ (pc = "prompt" /\ shown' = "goodbye" /\ ExitWord(user_input'))
        /\ shown' = "error" => pc' = "prompt"
        /\ pc = "done" => pc' = "done" ]_vars

\* C8 witness: the model call of a turn raised, the error was printed and
\* the session is back at the prompt.
C8_Witness ==
    /\ pc = "prompt"
    /\ shown = "error"
    /\ iter = 1
    /\ user_input = << "e", "m", "a", "i", "l", " ", "p", "a", "t" >>

\* Nothing was invoked for the line and the session is at the prompt as before.
NothingInvoked ==
    /\ pc' = "prompt"
    /\ iter' = 0
    /\ gen_count' = 0
    /\ send_count' = 0
    /\ pendingDraft' = pendingDraft

\* The workflow was started on the line.
WorkflowStarted == pc' = "agent" /\ messages' = << HumanMessage(user_input') >>

\* C9 as stated: in either orchestrator a line of fewer than two words gets the
\* clarification prompt and invokes nothing, a longer one starts the workflow.
C9_ShortInputRejectedByBoth ==
    [][ (ReadsLine /\ ~ExitWord(user_input') /\ Words(user_input') > 0) =>
            IF Words(user_input') < 2
            THEN shown' = "clarify" /\ NothingInvoked
            ELSE WorkflowStarted ]_vars

\* C9 amended: email_langgraph.py answers a one-word line that is no exit
\* word with the clarification prompt and invokes nothing, and starts the
\* workflow on a line of two or more words; email_agent_langchain.py starts
\* the agent on every such line, one-word lines included.
C9_ShortInputRejectedByLangGraph ==
    [][ (ReadsLine /\ ~ExitWord(user_input') /\ Words(user_input') > 0) =>
            IF impl = "langgraph" /\ Words(user_input') < 2
            THEN shown' = "clarify" /\ NothingInvoked
            ELSE WorkflowStarted ]_vars

\* C9 witness: the LangGraph session answered "yes" with the clarification
\* prompt.
C9_Witness ==
    /\ impl = "langgraph"
    /\ pc = "prompt"
    /\ shown = "clarify"
    /\ user_input = << "y", "e", "s" >>
    /\ iter = 0

\* C10 as stated: an exit word ends the session, the empty line invokes
\* nothing, every other non-empty line is passed to the workflow.
C10_EveryOtherLineIsATurn ==
    [][ ReadsLine =>
            IF ExitWord(user_input') THEN pc' = "done"
            ELSE IF user_input' = << >> THEN NothingInvoked /\ shown' = ""
            ELSE WorkflowStarted ]_vars

\* C10 amended: an exit word (exactly, no spaces around it) ends the session;
\* a line that is empty or all spaces invokes nothing and prints nothing;
\* every other line is passed to the workflow, except that
\* email_langgraph.py answers a one-word line with the clarification prompt.
C10_LinesByKind ==
    [][ ReadsLine =>
            IF ExitWord(user_input') THEN pc' = "done" /\ shown' = "goodbye"
            ELSE IF Words(user_input') = 0 THEN NothingInvoked /\ shown' = ""
            ELSE IF impl = "langgraph" /\ Words(user_input') = 1
                 THEN NothingInvoked /\ shown' = "clarify"
            ELSE WorkflowStarted ]_vars

\* C10 witness: "QUIT" ended a session.
C10_Witness ==
    /\ pc = "done"
    /\ shown = "goodbye"
    /\ user_input = << "Q", "U", "I", "T" >>

\* A turn is over: the session is back at the prompt after the workflow ran.
TurnOver == pc = "prompt" /\ shown \in {"turn", "error"} /\ iter > 0

\* C11: once send_email_smtp has been invoked in a turn, the turn invokes it
\* no second time, and when the turn is over the session is Idle (at the
\* prompt, no draft awaiting confirmation).
C11_SendOnceThenIdle ==
    /\ send_count <= 1
    /\ (TurnOver /\ send_count > 0) => Idle

\* C13: a line is read only when the turn before it is over, with no tool
\* call started or waiting to be returned, and at no time are two tool
\* invocations running at once.
C13_OneToolInvocationAtATime ==
    /\ Cardinality(inflight) <= 1
    /\ pc \in {"prompt", "done"} => (inflight = {} /\ finished = {} /\ messages = << >>)

\* C14 (checked under SynthSpec): every draft a synthesizer returns has a
\* non-empty `to`, and when the completion output has no `to` or an empty
\* list, the draft's `to` is exactly the one placeholder address.
C14_EmptyToGetsPlaceholder ==
    (fn_out.fn # "none" /\ ReturnedNormally(fn_out) /\ ~IsError(ResultDoc(fn_out))) =>
        LET doc == ResultDoc(fn_out)
            given == fn_in.completion.value
        IN /\ doc.t = "dict"
           /\ ~Empty(doc.d, "to")
           /\ (given.t = "dict" /\ ("to" \notin DOMAIN given.d \/ given.d["to"] = JList(<< >>))) =>
                 doc.d["to"] = JList(<< PLACEHOLDER >>)

\* How many messages of a kind a message list holds.
CountOf(msgs, type) == Cardinality({ k \in 1..Len(msgs) : msgs[k].type = type })

\* C15: while a turn runs, the state it started from holds the current line
\* as its only message with email_generated false, email_data empty and
\* confirmation_pending false (email_agent_langchain.py: the line as the
\* only input); the first model call sees the instructions and that line;
\* and every message of the workflow's state is the line, an answer of one
\* of this turn's model calls or the result of one of this turn's tool
\* calls, whatever the turns before it did.
C15_TurnStartsFresh ==
    pc \in {"agent", "tools"} =>
        /\ impl = "langgraph" =>
              initial_state = [messages |-> << HumanMessage(user_input) >>,
                               email_generated |-> FALSE,
                               email_data |-> JDict(<< >>),
                               confirmation_pending |-> FALSE]
        /\ impl = "langchain" => initial_state = [input |-> user_input]
        /\ messages[1] = HumanMessage(user_input)
        /\ CountOf(messages, "human") = 1
        /\ CountOf(messages, "ai") = iter
        /\ CountOf(messages, "tool") = gen_count + send_count - Cardinality(finished)
        /\ iter = 0 => SeenByModel(impl, messages) = << SystemMessage, HumanMessage(user_input) >>

\* C15 witness: a turn printed a draft, and the turn of the next line has
\* had its first tool call answered: its state holds the new line, the
\* model's answer and the tool result, three messages.
C15_Witness ==
    /\ pc = "agent"
    /\ prevDraft # NoDraft
    /\ iter = 1
    /\ Len(messages) = 3
    /\ messages[1] = HumanMessage(user_input)
    /\ messages[3].type = "tool"

====
